---- MODULE Spec2Model ----
(***************************************************************************)
(* Campaign Estimator: the two script variants of the repository,          *)
(*   "app" = src/app.py                   (Excel input),                   *)
(*   "out" = src/OUT_estimation_app_v2.py (CSV input).                     *)
(* A table (pandas DataFrame) is [columns, rows]; a row is [idx, cells]    *)
(* with idx the pandas index label and cells a function on the columns.    *)
(* A cell value is a tagged record:                                        *)
(*   [t |-> "null"]                    None / NaN / NaT                    *)
(*   [t |-> "str", s |-> <<chars>>]    text, one character per element     *)
(*   [t |-> "int" | "float", m, x]     the number m * 10^x                 *)
(*   [t |-> "bool", b]                 a boolean                           *)
(*   [t |-> "ts", ord]                 a Timestamp (day ordinal)           *)
(* Floating-point arithmetic is modelled exactly (decimal numbers and      *)
(* rationals); binary rounding is outside the model.                       *)
(***************************************************************************)
EXTENDS Integers, Sequences, FiniteSets, TLC

VARIABLES
    ws,                   \* the active worksheet of the opened workbook
    variant,              \* which script runs
    pc,                   \* position of the script run
    uploaded_file,        \* the table the uploaded file holds
    df,                   \* the table being processed
    inp,                  \* the widget values of this run
    earlier_filtered,     \* filter_data result, earlier period
    later_filtered,       \* filter_data result, later period
    earlier_selected_df,  \* rows ticked in the earlier period
    later_selected_df,    \* rows ticked in the later period
    estimation,           \* estimate_demand's return value
    shown                 \* what st.error / st.warning / st.success displayed

vars == <<ws, variant, pc, uploaded_file, df, inp, earlier_filtered, later_filtered,
          earlier_selected_df, later_selected_df, estimation, shown>>

Variants == {"app", "out"}

\* ------------------------------------------------------------------ bounds
\* Longest table (number of rows) the filter specification draws.
MaxRows == 2
\* Longest selection (number of rows) the estimator specification draws.
MaxSel == 2
\* Longest Demand column the normalizer specification draws.
MaxCol == 3
\* Most rows (the header row included) of a worksheet the loader specification draws.
MaxSheetRows == 3
\* Most merged ranges of a worksheet the loader specification draws.
MaxRanges == 2

\* ------------------------------------------------------------ basic values
Null == [t |-> "null"]
Str(s) == [t |-> "str", s |-> s]
Float(m, x) == [t |-> "float", m |-> m, x |-> x]
IntV(m, x) == [t |-> "int", m |-> m, x |-> x]
Bool(b) == [t |-> "bool", b |-> b]
Ts(o) == [t |-> "ts", ord |-> o]

\* pd.isna on a scalar
isna(v) == v.t = "null"

\* pd.DataFrame(): no columns, no rows
EmptyDataFrame == [columns |-> {}, rows |-> <<>>]

\* DataFrame.empty: any axis of length 0
empty(t) == t.columns = {} \/ Len(t.rows) = 0

RECURSIVE Pow10(_)
Pow10(k) == IF k = 0 THEN 1 ELSE 10 * Pow10(k - 1)

Abs(n) == IF n < 0 THEN -n ELSE n

RECURSIVE Gcd(_, _)
Gcd(a, b) == IF b = 0 THEN a ELSE Gcd(b, a % b)

\* ------------------------------------------------ exact results (rationals)
\* A computed float is the rational n/d in lowest terms (d > 0), or NaN.
NaN == [t |-> "nan"]
None == [t |-> "none"]

Rat(n, d) ==
    LET g == Gcd(Abs(n), d)
    IN  [t |-> "rat", n |-> n \div g, d |-> d \div g]

\* the value of a decimal number m * 10^x
RatOf(v) == IF v.x >= 0 THEN Rat(v.m * Pow10(v.x), 1) ELSE Rat(v.m, Pow10(-v.x))

\* float arithmetic: NaN is absorbing
FAdd(a, b) ==
    IF a.t = "nan" \/ b.t = "nan" THEN NaN
    ELSE Rat(a.n * b.d + b.n * a.d, a.d * b.d)

FMul(a, b) ==
    IF a.t = "nan" \/ b.t = "nan" THEN NaN
    ELSE Rat(a.n * b.n, a.d * b.d)

\* division by a positive integer
FDivInt(a, k) == IF a.t = "nan" THEN NaN ELSE Rat(a.n, a.d * k)

RECURSIVE SumSeq(_)
SumSeq(s) == IF s = <<>> THEN Rat(0, 1) ELSE FAdd(Head(s), SumSeq(Tail(s)))

\* the values of one column, in row order
Column(t, c) == [i \in 1..Len(t.rows) |-> t.rows[i].cells[c]]

\* Series.dropna
dropna(s) == SelectSeq(s, LAMBDA v : ~isna(v))

RatSeq(s) == [i \in 1..Len(s) |-> RatOf(s[i])]

\* Series.mean(): skips NaN; NaN when nothing is left
mean(s) ==
    LET valid == dropna(s)
    IN  IF Len(valid) = 0 THEN NaN
        ELSE FDivInt(SumSeq(RatSeq(valid)), Len(valid))

\* ---------------------------------------------------------------- estimator
\* 1 + percentage / 100
GrowthFactor(percentage) == FAdd(Rat(1, 1), Rat(percentage, 100))

\* the guard of the two mean computations
HasMean(v, t) ==
    IF v = "app" THEN ~empty(t)
    ELSE ~empty(t) /\ "Demand" \in t.columns

\* mutant: the two one-sided branches exchanged
estimate_demand_swapped(v, earlier_df, later_df, percentage) ==
    LET earlier_mean ==
            IF HasMean(v, earlier_df) THEN mean(Column(earlier_df, "Demand"))
            ELSE Rat(0, 1)
        later_mean ==
            IF HasMean(v, later_df) THEN mean(Column(later_df, "Demand"))
            ELSE Rat(0, 1)
        adjusted_earlier == FMul(earlier_mean, GrowthFactor(percentage))
    IN  IF empty(earlier_df) /\ empty(later_df) THEN None
        ELSE IF empty(earlier_df) THEN adjusted_earlier
        ELSE IF empty(later_df) THEN later_mean
        ELSE FDivInt(FAdd(adjusted_earlier, later_mean), 2)

estimate_demand(v, earlier_df, later_df, percentage) ==
    LET earlier_mean ==
            IF HasMean(v, earlier_df) THEN mean(Column(earlier_df, "Demand"))
            ELSE Rat(0, 1)
        later_mean ==
            IF HasMean(v, later_df) THEN mean(Column(later_df, "Demand"))
            ELSE Rat(0, 1)
        adjusted_earlier == FMul(earlier_mean, GrowthFactor(percentage))
    IN  IF empty(earlier_df) /\ empty(later_df) THEN None
        ELSE IF empty(earlier_df) THEN later_mean
        ELSE IF empty(later_df) THEN adjusted_earlier
        ELSE FDivInt(FAdd(adjusted_earlier, later_mean), 2)

\* --------------------------------------------------------------------- text
\* U+00A0, U+202F and the euro sign, each one character
NBSP == "NBSP"
NNBSP == "NNBSP"
EURO == "EUR"

\* str.isspace for the characters of the model
IsSpace(c) == c \in {" ", NBSP, NNBSP}

RECURSIVE lstrip(_)
lstrip(s) == IF s # <<>> /\ IsSpace(Head(s)) THEN lstrip(Tail(s)) ELSE s

RECURSIVE rstrip(_)
rstrip(s) ==
    IF s # <<>> /\ IsSpace(s[Len(s)]) THEN rstrip(SubSeq(s, 1, Len(s) - 1)) ELSE s

\* str.strip(): leading and trailing whitespace
strip(s) == rstrip(lstrip(s))

\* str.replace(r'[\u00A0\u202F]', '', regex=True): both no-break spaces removed
RemoveNbsp(s) == SelectSeq(s, LAMBDA c : c \notin {NBSP, NNBSP})

LowerChar(c) ==
    CASE c = "A" -> "a" [] c = "B" -> "b" [] c = "C" -> "c"
      [] c = "X" -> "x" [] c = "N" -> "n" [] OTHER -> c

\* str.lower()
lower(s) == [i \in 1..Len(s) |-> LowerChar(s[i])]

\* pat occurs in s (both already case-folded)
Occurs(pat, s) ==
    \E i \in 1..(Len(s) - Len(pat) + 1) : SubSeq(s, i, i + Len(pat) - 1) = pat

\* Series.str.contains(pat, case=False, na=False) on one cell; the patterns of
\* the model hold no regular-expression metacharacter
contains(v, pat) ==
    IF v.t # "str" THEN FALSE
    ELSE Len(pat) = 0 \/ Occurs(lower(pat), lower(v.s))

\* Series.astype(str) on one cell of a text column
astype_str(v) == IF v.t = "null" THEN <<"N", "o", "n", "e">> ELSE v.s

\* -------------------------------------------------------------------- dates
DigitVal(c) ==
    CASE c = "0" -> 0 [] c = "1" -> 1 [] c = "2" -> 2 [] c = "3" -> 3
      [] c = "4" -> 4 [] c = "5" -> 5 [] c = "6" -> 6 [] c = "7" -> 7
      [] c = "8" -> 8 [] c = "9" -> 9 [] OTHER -> -1

IsDigit(c) == DigitVal(c) >= 0

\* day ordinal of a calendar date (months of 31 slots: order-preserving)
DateOrd(y, m, d) == (y * 12 + (m - 1)) * 31 + d

\* pd.to_datetime(cell, dayfirst=True, errors='coerce') on one cell: a
\* Timestamp stays, the text "dd.mm.yyyy" is read day first, anything else
\* that the model draws (free text, None) is NaT
to_datetime(v) ==
    IF v.t = "ts" THEN v
    ELSE IF v.t # "str" THEN Null
    ELSE LET s == v.s
         IN  IF /\ Len(s) = 10
                /\ s[3] = "." /\ s[6] = "."
                /\ \A i \in {1, 2, 4, 5, 7, 8, 9, 10} : IsDigit(s[i])
             THEN LET d == 10 * DigitVal(s[1]) + DigitVal(s[2])
                      m == 10 * DigitVal(s[4]) + DigitVal(s[5])
                      y == 1000 * DigitVal(s[7]) + 100 * DigitVal(s[8])
                             + 10 * DigitVal(s[9]) + DigitVal(s[10])
                  IN  IF d \in 1..28 /\ m \in 1..12 THEN Ts(DateOrd(y, m, d))
                      ELSE Null
             ELSE Null

\* comparisons of a datetime cell with a Timestamp: False on NaT
Ge(a, b) == a.t = "ts" /\ b.t = "ts" /\ a.ord >= b.ord
Le(a, b) == a.t = "ts" /\ b.t = "ts" /\ a.ord <= b.ord
Lt(a, b) == a.t = "ts" /\ b.t = "ts" /\ a.ord < b.ord

\* ------------------------------------------------------------------- tables
KeyError(k) == [err |-> "KeyError", key |-> k]
IsErr(r) == "err" \in DOMAIN r

\* df[mask]: the table with the rows kept by a mask (a subsequence of its
\* rows, order and index labels kept)
Where(t, kept) == [t EXCEPT !.rows = kept]

\* df[c] = series: column c replaced by a sequence of values
SetColumn(t, c, series) ==
    [t EXCEPT !.rows =
        [i \in 1..Len(t.rows) |-> [t.rows[i] EXCEPT !.cells[c] = series[i]]]]

\* pd.to_datetime of a column
DatesOf(t, c) == [i \in 1..Len(t.rows) |-> to_datetime(t.rows[i].cells[c])]

\* the index labels of a table, in order
Index(t) == [i \in 1..Len(t.rows) |-> t.rows[i].idx]

\* the index labels of a table, as a set
IndexSet(t) == {t.rows[k].idx : k \in 1..Len(t.rows)}

\* ------------------------------------------------------------ period filter
\* the text cleaning of one cell: astype(str), strip, drop U+00A0 / U+202F
CleanText(v) == Str(RemoveNbsp(strip(astype_str(v))))

\* Series.str.strip().str.lower() on one cell (NaN on a non-string)
StripLower(v) == IF v.t = "str" THEN Str(lower(strip(v.s))) ELSE Null

\* mutant: the test written as "not before and not after", which a NaT passes
DateMatchKeepsNaT(v, start_cell, end_cell, start_ts, end_ts) ==
    IF v = "app"
    THEN ~Lt(end_cell, start_ts) /\ ~Lt(end_ts, start_cell)
    ELSE ~Lt(start_cell, start_ts) /\ ~Lt(end_ts, end_cell)

\* the date test of one row of each variant
DateMatch(v, start_cell, end_cell, start_ts, end_ts) ==
    IF v = "app"
    THEN Ge(end_cell, start_ts) /\ Le(start_cell, end_ts)
    ELSE Ge(start_cell, start_ts) /\ Le(end_cell, end_ts)

\* whether the search term restricts the rows
SearchApplies(v, search_filter) ==
    IF v = "app"
    THEN Len(search_filter) > 0 /\ Len(strip(search_filter)) >= 3
    ELSE Len(search_filter) > 0 /\ Len(search_filter) >= 3

\* whether the category restricts the rows ("All" and '' do not)
CategoryApplies(selected_category) ==
    Len(selected_category) > 0 /\ selected_category # <<"A", "l", "l">>

\* a frame that shares its cells with the caller's table instead of owning them
no_copy(t) == [frame |-> t, owns |-> FALSE]

\* DataFrame.copy() of df[mask]: a new frame that owns its cells
copy(t) == [frame |-> t, owns |-> TRUE]

\* a table whose rows with an index label of f hold the cells f holds there
WriteThrough(t, f) ==
    [t EXCEPT !.rows =
        [i \in 1..Len(t.rows) |->
            IF t.rows[i].idx \in IndexSet(f)
            THEN f.rows[CHOOSE k \in 1..Len(f.rows) : f.rows[k].idx = t.rows[i].idx]
            ELSE t.rows[i]]]

\* src/app.py filter_data, up to its last column assignment: df_filtered
\* before the date mask (Country is a column)
assigned_app(t, country, search_filter, selected_category) ==
    LET f0 == copy(Where(t, SelectSeq(t.rows,
                     LAMBDA r : r.cells["Country"] = Str(country)))).frame
        TextCols == {"Name", "Description", "Category"} \cap t.columns
        f1 == [f0 EXCEPT !.rows =
                 [i \in 1..Len(f0.rows) |->
                    [f0.rows[i] EXCEPT !.cells =
                       [c \in t.columns |->
                          IF c \in TextCols THEN CleanText(f0.rows[i].cells[c])
                          ELSE f0.rows[i].cells[c]]]]]
        f2 == IF CategoryApplies(selected_category) /\ "Category" \in t.columns
              THEN Where(f1, SelectSeq(f1.rows, LAMBDA r :
                       lower(r.cells["Category"].s) = lower(strip(selected_category))))
              ELSE f1
        pattern == strip(search_filter)
        f3 == IF SearchApplies("app", search_filter)
              THEN Where(f2, SelectSeq(f2.rows, LAMBDA r :
                       \/ "Name" \in t.columns /\ contains(r.cells["Name"], pattern)
                       \/ "Description" \in t.columns
                            /\ contains(r.cells["Description"], pattern)))
              ELSE f2
    IN  IF "Start" \in t.columns /\ "End" \in t.columns
        THEN SetColumn(SetColumn(f3, "Start", DatesOf(f3, "Start")),
                       "End", DatesOf(f3, "End"))
        ELSE f3

\* src/app.py filter_data
filter_data_app(t, country, search_filter, start_date, end_date, selected_category) ==
    IF "Country" \notin t.columns THEN EmptyDataFrame
    ELSE
    LET f4 == assigned_app(t, country, search_filter, selected_category)
    IN  IF "Start" \in t.columns /\ "End" \in t.columns
        THEN Where(f4, SelectSeq(f4.rows, LAMBDA r :
                 DateMatch("app", r.cells["Start"], r.cells["End"],
                           start_date, end_date)))
        ELSE f4

\* the KeyError src/OUT_estimation_app_v2.py filter_data raises on a missing
\* column, None when it raises none
raised_out(t, campaign_filter, selected_category) ==
    LET campaign_col == IF "Campaign name" \in t.columns THEN "Campaign name" ELSE "Name"
        date_start_col == IF "Date Start" \in t.columns THEN "Date Start" ELSE "Start"
        date_end_col == IF "Date End" \in t.columns THEN "Date End" ELSE "End"
    IN
    IF "Country" \notin t.columns THEN KeyError("Country")
    ELSE IF CategoryApplies(selected_category) /\ "Category_name" \notin t.columns
    THEN KeyError("Category_name")
    ELSE IF SearchApplies("out", campaign_filter) /\ "Description" \notin t.columns
    THEN KeyError("Description")
    ELSE IF SearchApplies("out", campaign_filter) /\ campaign_col \notin t.columns
    THEN KeyError(campaign_col)
    ELSE IF date_start_col \notin t.columns THEN KeyError(date_start_col)
    ELSE IF date_end_col \notin t.columns THEN KeyError(date_end_col)
    ELSE None

\* src/OUT_estimation_app_v2.py filter_data, up to its last column
\* assignment: df_filtered before the date mask, or where it raised (the
\* start dates are assigned before a missing end column raises)
assigned_out(t, country, campaign_filter, selected_category) ==
    LET campaign_col == IF "Campaign name" \in t.columns THEN "Campaign name" ELSE "Name"
        date_start_col == IF "Date Start" \in t.columns THEN "Date Start" ELSE "Start"
        date_end_col == IF "Date End" \in t.columns THEN "Date End" ELSE "End"
        e == raised_out(t, campaign_filter, selected_category)
    IN
    IF e # None /\ e # KeyError(date_end_col) THEN Where(t, <<>>)
    ELSE
    LET f0 == copy(Where(t, SelectSeq(t.rows,
                     LAMBDA r : r.cells["Country"] = Str(country)))).frame
        f1 == IF CategoryApplies(selected_category)
              THEN Where(f0, SelectSeq(f0.rows, LAMBDA r :
                       StripLower(r.cells["Category_name"])
                         = Str(lower(strip(selected_category)))))
              ELSE f0
        f2 == IF SearchApplies("out", campaign_filter)
              THEN Where(f1, SelectSeq(f1.rows, LAMBDA r :
                       \/ contains(r.cells["Description"], campaign_filter)
                       \/ contains(r.cells[campaign_col], campaign_filter)))
              ELSE f1
        f2s == SetColumn(f2, date_start_col, DatesOf(f2, date_start_col))
    IN  IF e = None
        THEN SetColumn(f2s, date_end_col, DatesOf(f2, date_end_col))
        ELSE f2s

\* src/OUT_estimation_app_v2.py filter_data; a missing column raises KeyError
filter_data_out(t, country, campaign_filter, start_date, end_date, selected_category) ==
    LET date_start_col == IF "Date Start" \in t.columns THEN "Date Start" ELSE "Start"
        date_end_col == IF "Date End" \in t.columns THEN "Date End" ELSE "End"
        e == raised_out(t, campaign_filter, selected_category)
        f3 == assigned_out(t, country, campaign_filter, selected_category)
    IN  IF e # None THEN e
        ELSE Where(f3, SelectSeq(f3.rows, LAMBDA r :
                 DateMatch("out", r.cells[date_start_col], r.cells[date_end_col],
                           start_date, end_date)))

\* the caller's table after filter_data returned or raised: a column
\* assignment to df_filtered reaches it only if df_filtered shares its cells
filter_data_input(v, t, country, search_filter, selected_category) ==
    LET f == IF v = "out"
             THEN assigned_out(t, country, search_filter, selected_category)
             ELSE IF "Country" \in t.columns
             THEN assigned_app(t, country, search_filter, selected_category)
             ELSE Where(t, <<>>)
    IN  IF copy(t).owns THEN t ELSE WriteThrough(t, f)

\* filter_data of the running variant
filter_data(v, t, country, search_filter, start_date, end_date, selected_category) ==
    IF v = "app"
    THEN filter_data_app(t, country, search_filter, start_date, end_date,
                         selected_category)
    ELSE filter_data_out(t, country, search_filter, start_date, end_date,
                         selected_category)

\* ------------------------------------------------------ numbers and strings
DigitChars == <<"0", "1", "2", "3", "4", "5", "6", "7", "8", "9">>

\* the decimal digits of a natural number
RECURSIVE Digits(_)
Digits(n) ==
    IF n < 10 THEN <<DigitChars[n + 1]>>
    ELSE Append(Digits(n \div 10), DigitChars[(n % 10) + 1])

\* the natural number a digit string denotes
RECURSIVE DigitsVal(_)
DigitsVal(s) ==
    IF s = <<>> THEN 0
    ELSE 10 * DigitsVal(SubSeq(s, 1, Len(s) - 1)) + DigitVal(s[Len(s)])

Zeros(k) == [i \in 1..k |-> "0"]

RECURSIVE StripLeadingZeros(_)
StripLeadingZeros(s) ==
    IF s # <<>> /\ Head(s) = "0" THEN StripLeadingZeros(Tail(s)) ELSE s

RECURSIVE StripTrailingZeros(_)
StripTrailingZeros(s) ==
    IF s # <<>> /\ s[Len(s)] = "0"
    THEN StripTrailingZeros(SubSeq(s, 1, Len(s) - 1)) ELSE s

\* the float with digit string ds scaled by 10^x, as m * 10^x with m free of
\* trailing zeros (one representation per value)
MkFloat(neg, ds, x) ==
    LET sig == StripTrailingZeros(StripLeadingZeros(ds))
        z == Len(StripLeadingZeros(ds)) - Len(sig)
        m == DigitsVal(sig)
    IN  IF sig = <<>> THEN Float(0, 0)
        ELSE Float(IF neg THEN -m ELSE m, x + z)

\* float(val) of a number: the same value, as a float
to_float(v) == MkFloat(v.m < 0, Digits(Abs(v.m)), v.x)

\* str(val): repr of an int, of a float (below 1e16, at least 1e-4), of a bool
PyStr(v) ==
    LET sign == IF v.t \in {"int", "float"} /\ v.m < 0 THEN <<"-">> ELSE <<>>
    IN  CASE v.t = "str" -> v.s
          [] v.t = "bool" -> IF v.b THEN <<"T", "r", "u", "e">>
                             ELSE <<"F", "a", "l", "s", "e">>
          [] v.t = "int" -> sign \o Digits(Abs(v.m)) \o Zeros(v.x)
          [] v.t = "float" ->
                IF v.x >= 0
                THEN sign \o Digits(Abs(v.m)) \o Zeros(v.x) \o <<".", "0">>
                ELSE LET k == -v.x
                         ds == Digits(Abs(v.m))
                         pad == IF Len(ds) > k THEN ds
                                ELSE Zeros(k + 1 - Len(ds)) \o ds
                     IN  sign \o SubSeq(pad, 1, Len(pad) - k) \o <<".">>
                              \o SubSeq(pad, Len(pad) - k + 1, Len(pad))
          [] OTHER -> <<"n", "a", "n">>

Count(s, c) == Len(SelectSeq(s, LAMBDA e : e = c))

\* str.replace(c, '')
Remove(s, c) == SelectSeq(s, LAMBDA e : e # c)

\* str.replace(a, b), one character for one character
Replace(s, a, b) == [i \in 1..Len(s) |-> IF s[i] = a THEN b ELSE s[i]]

\* float(s) on text: surrounding whitespace and one sign allowed, then digits
\* with at most one point; ValueError otherwise (the texts of the model hold
\* no exponent, "inf", "nan" or "_")
ValueError == [t |-> "ValueError"]
PyFloat(text) ==
    LET s == strip(text)
        signed == s # <<>> /\ Head(s) \in {"-", "+"}
        body == IF signed THEN Tail(s) ELSE s
        dot == IF Count(body, ".") = 1
               THEN CHOOSE i \in 1..Len(body) : body[i] = "." ELSE Len(body) + 1
        ip == SubSeq(body, 1, dot - 1)
        fp == SubSeq(body, dot + 1, Len(body))
    IN  IF /\ \A i \in 1..Len(body) : IsDigit(body[i]) \/ body[i] = "."
           /\ Count(body, ".") <= 1
           /\ Len(ip) + Len(fp) >= 1
        THEN MkFloat(signed /\ Head(s) = "-", ip \o fp, -Len(fp))
        ELSE ValueError

\* number of digits of the integer part of |m * 10^x| (0 below 1)
IntDigits(v) == IF v.m = 0 THEN 0 ELSE
    LET n == Len(Digits(Abs(v.m))) + v.x IN IF n < 0 THEN 0 ELSE n

\* abs(num) > 10^e for a float m * 10^x with m free of trailing zeros
AbsAbove(v, e) ==
    \/ IntDigits(v) > e + 1
    \/ IntDigits(v) = e + 1 /\ Abs(v.m) # 1

\* ------------------------------------------------------- demand normalizer
\* the ceiling of src/app.py: abs(num) > 1e12 is rejected
CeilingExp == 12

\* re.sub(r'[^\d,.\-]', '', s)
KeepNumeric(s) == SelectSeq(s, LAMBDA c : IsDigit(c) \/ c \in {",", ".", "-"})

\* src/app.py parse_demand
parse_demand_app(val) ==
    IF isna(val) THEN Null
    ELSE IF val.t \in {"int", "float"} THEN to_float(val)
    ELSE
    LET s0 == PyStr(val)
        s1 == Remove(Remove(Remove(s0, NBSP), NNBSP), " ")
        s2 == KeepNumeric(s1)
        s3 == IF Count(s2, ",") = 1 /\ Count(s2, ".") = 0
              THEN Replace(s2, ",", ".") ELSE s2
    IN  IF s3 \in {<<>>, <<"-">>, <<".">>, <<",">>} THEN Null
        ELSE LET num == PyFloat(s3)
             IN  IF num = ValueError THEN Null
                 ELSE IF AbsAbove(num, CeilingExp) THEN Null
                 ELSE num

\* src/OUT_estimation_app_v2.py parse_demand
parse_demand_out(val) ==
    IF isna(val) THEN Null
    ELSE
    LET s0 == PyStr(val)
        s1 == Remove(Remove(s0, EURO), " ")
        s2 == Replace(Remove(s1, "."), ",", ".")
        num == PyFloat(s2)
    IN  IF num = ValueError THEN Null ELSE num

parse_demand(v, val) ==
    IF v = "app" THEN parse_demand_app(val) ELSE parse_demand_out(val)

\* clean_demand_column: df['Demand'] = df['Demand'].apply(parse_demand), in
\* place; a table without the column is returned as it is
clean_demand_column(v, t) ==
    IF "Demand" \in t.columns
    THEN SetColumn(t, "Demand",
                   [i \in 1..Len(t.rows) |-> parse_demand(v, t.rows[i].cells["Demand"])])
    ELSE t

\* the counts src/app.py reports: notna().sum() and isna().sum()
DemandDiagnostics(t) ==
    [valid |-> Len(dropna(Column(t, "Demand"))),
     invalid |-> Len(t.rows) - Len(dropna(Column(t, "Demand")))]

\* -------------------------------------------------------- schema reconciler
\* column_mapping of map_column_names, in its insertion order
column_mapping ==
    << <<"Start", "Date Start">>, <<"End", "Date End">>,
       <<"Name", "Campaign name">>, <<"Description", "Description">>,
       <<"Country", "Country">>, <<"Category", "Category_name">>,
       <<"Demand", "Demand">> >>

\* mutant: the test "new_name not in df.columns" dropped
MapOneOverwriting(t, old_name, new_name) ==
    IF old_name \in t.columns
    THEN [columns |-> t.columns \cup {new_name},
          rows |-> [i \in 1..Len(t.rows) |->
                      [t.rows[i] EXCEPT !.cells =
                         [c \in t.columns \cup {new_name} |->
                            IF c = new_name THEN t.rows[i].cells[old_name]
                            ELSE t.rows[i].cells[c]]]]]
    ELSE t

\* one pass of the loop body: df[new_name] = df[old_name] when old_name is a
\* column and new_name is not
MapOne(t, old_name, new_name) ==
    IF old_name \in t.columns /\ new_name \notin t.columns
    THEN [columns |-> t.columns \cup {new_name},
          rows |-> [i \in 1..Len(t.rows) |->
                      [t.rows[i] EXCEPT !.cells =
                         [c \in t.columns \cup {new_name} |->
                            IF c = new_name THEN t.rows[i].cells[old_name]
                            ELSE t.rows[i].cells[c]]]]]
    ELSE t

RECURSIVE MapFrom(_, _)
MapFrom(t, k) ==
    IF k > Len(column_mapping) THEN t
    ELSE MapFrom(MapOne(t, column_mapping[k][1], column_mapping[k][2]), k + 1)

\* map_column_names: the whole loop
map_column_names(t) == MapFrom(t, 1)

\* ------------------------------------------------------------- input tables
\* text constants of the drawn tables
PL == <<"P", "L">>
DE == <<"D", "E">>
All == <<"A", "l", "l">>

\* a table from its columns and the cells of its rows; index labels 1..n
MkTable(cols, cells) ==
    [columns |-> cols,
     rows |-> [i \in 1..Len(cells) |-> [idx |-> i, cells |-> cells[i]]]]

\* sequences over S of length at most n
SeqsUpTo(S, n) == UNION {[1..k -> S] : k \in 0..n}

\* the columns src/app.py requires
AppCols == {"Country", "Name", "Description", "Start", "End", "Demand"}

\* a row of a cleaned table that differs from the others in Demand only
DemandRow(d) ==
    [c \in AppCols |->
        CASE c = "Country" -> Str(PL)
          [] c = "Name" -> Str(<<"a", "b", "c">>)
          [] c = "Description" -> Str(<<"x">>)
          [] c = "Start" -> Ts(DateOrd(2024, 1, 1))
          [] c = "End" -> Ts(DateOrd(2024, 1, 2))
          [] OTHER -> d]

\* no worksheet opened
NoSheet == [cells |-> <<>>, merged_cells |-> {}]

\* the widget values before any widget is read
NoInput ==
    [country |-> PL, category |-> All, search |-> <<>>,
     earlier_start |-> Ts(0), earlier_end |-> Ts(0),
     later_start |-> Ts(0), later_end |-> Ts(0), growth |-> 0]

\* ------------------------------------------------- estimator specification
\* cleaned Demand values: 0, 100, 200 and a missing value
EstDemands == {Null, Float(0, 0), Float(1, 2), Float(2, 2)}

\* st.number_input(min_value=-100, max_value=1000)
Growths == {-100, 10, 1000}

\* the selections handed to estimate_demand: pd.DataFrame() (nothing ticked)
\* or rows of the cleaned table
Selections ==
    {EmptyDataFrame} \cup
    {MkTable(AppCols, [i \in 1..Len(ds) |-> DemandRow(ds[i])]) :
        ds \in SeqsUpTo(EstDemands, MaxSel)}

InitEstimate ==
    /\ ws = NoSheet
    /\ variant \in Variants
    /\ pc = "call"
    /\ uploaded_file = EmptyDataFrame
    /\ df = EmptyDataFrame
    /\ inp \in {[NoInput EXCEPT !.growth = g] : g \in Growths}
    /\ earlier_filtered = EmptyDataFrame
    /\ later_filtered = EmptyDataFrame
    /\ earlier_selected_df \in Selections
    /\ later_selected_df \in Selections
    /\ estimation = None
    /\ shown = <<>>

\* estimation = estimate_demand(earlier_selected_df, later_selected_df, growth)
CallEstimateDemand ==
    /\ pc = "call"
    /\ estimation' = estimate_demand(variant, earlier_selected_df,
                                     later_selected_df, inp.growth)
    /\ pc' = "estimated"
    /\ UNCHANGED <<ws, variant, uploaded_file, df, inp, earlier_filtered,
                   later_filtered, earlier_selected_df, later_selected_df,
                   shown>>

NextEstimate == CallEstimateDemand

SpecEstimate == InitEstimate /\ [][NextEstimate]_vars

\* ---------------------------------------------------- filter specification
\* date cells: 5 January and 3 February 2024 written day first, and a text
\* that is no date
Jan5 == Str(<<"0", "5", ".", "0", "1", ".", "2", "0", "2", "4">>)
Feb3 == Str(<<"0", "3", ".", "0", "2", ".", "2", "0", "2", "4">>)
NoDate == Str(<<"n", "/", "a">>)

\* the columns of an uploaded sheet
RawCols == AppCols \cup {"Category"}

FilterRow(country, name, description, category, start, end) ==
    [c \in RawCols |->
        CASE c = "Country" -> Str(country)
          [] c = "Name" -> Str(name)
          [] c = "Description" -> Str(description)
          [] c = "Category" -> Str(category)
          [] c = "Start" -> start
          [] c = "End" -> end
          [] OTHER -> Float(1, 2)]

\* rows that differ in their dates, and rows that differ in their texts
FilterRows ==
    {FilterRow(PL, <<"a", "b", "c">>, <<"x">>, <<"T", " ">>, d[1], d[2]) :
        d \in {<<Jan5, Jan5>>, <<Jan5, Feb3>>, <<Feb3, Feb3>>,
               <<NoDate, Feb3>>, <<Jan5, NoDate>>, <<Jan5, Null>>}}
    \cup
    {FilterRow(PL, <<"x", "a", "b", " ", "c">>, <<"x">>, <<"T", " ">>, Jan5, Feb3),
     FilterRow(PL, <<"A", "b", NBSP>>, <<"a", "b", " ", "c">>, <<"S">>, Jan5, Feb3),
     FilterRow(DE, <<"a", "b", "c">>, <<"x">>, <<"T", " ">>, Jan5, Feb3)}

\* st.date_input values: the windows of the criteria
Windows ==
    {<<Ts(DateOrd(2024, 1, 1)), Ts(DateOrd(2024, 1, 10))>>,
     <<Ts(DateOrd(2024, 1, 10)), Ts(DateOrd(2024, 2, 10))>>,
     <<Ts(DateOrd(2024, 1, 10)), Ts(DateOrd(2024, 2, 1))>>,
     <<Ts(DateOrd(2024, 1, 1)), Ts(DateOrd(2024, 2, 10))>>,
     <<Ts(DateOrd(2024, 2, 10)), Ts(DateOrd(2024, 2, 10))>>}

\* st.text_input values
SearchTerms == {<<>>, <<"a", "b", " ">>, <<" ", "A", "B", "C", " ">>}

\* st.selectbox values of the category
Categories == {All, <<"t">>}

InitFilter ==
    /\ ws = NoSheet
    /\ variant \in Variants
    /\ pc = "call"
    /\ uploaded_file \in {MkTable(RawCols, cells) :
                            cells \in SeqsUpTo(FilterRows, MaxRows)}
    /\ df = (IF variant = "out" THEN map_column_names(uploaded_file)
             ELSE uploaded_file)
    /\ inp \in {[NoInput EXCEPT !.search = q, !.category = k,
                                !.earlier_start = w[1], !.earlier_end = w[2]] :
                   q \in SearchTerms, k \in Categories, w \in Windows}
    /\ earlier_filtered = EmptyDataFrame
    /\ later_filtered = EmptyDataFrame
    /\ earlier_selected_df = EmptyDataFrame
    /\ later_selected_df = EmptyDataFrame
    /\ estimation = None
    /\ shown = <<>>

\* earlier_filtered = filter_data(df, country, search, start, end, category)
CallFilterData ==
    /\ pc = "call"
    /\ earlier_filtered' = filter_data(variant, df, inp.country, inp.search,
                                       inp.earlier_start, inp.earlier_end,
                                       inp.category)
    /\ df' = filter_data_input(variant, df, inp.country, inp.search, inp.category)
    /\ pc' = "filtered"
    /\ UNCHANGED <<ws, variant, uploaded_file, inp, later_filtered,
                   earlier_selected_df, later_selected_df, estimation, shown>>

NextFilter == CallFilterData

SpecFilter == InitFilter /\ [][NextFilter]_vars

\* ------------------------------------------ the two filter calls of a run
\* the pairs of windows of the two periods
WindowPairs ==
    {<<w, x>> : w \in {<<Ts(DateOrd(2024, 1, 1)), Ts(DateOrd(2024, 1, 10))>>,
                       <<Ts(DateOrd(2024, 1, 1)), Ts(DateOrd(2024, 2, 10))>>},
                x \in {<<Ts(DateOrd(2024, 1, 10)), Ts(DateOrd(2024, 2, 10))>>,
                       <<Ts(DateOrd(2024, 2, 10)), Ts(DateOrd(2024, 2, 10))>>}}

\* the table and the criteria of the two calls; pc lists the calls made
InitFilterCalls ==
    /\ ws = NoSheet
    /\ variant \in Variants
    /\ pc = <<>>
    /\ uploaded_file \in {MkTable(RawCols, cells) :
                            cells \in SeqsUpTo(FilterRows, MaxRows)}
    /\ df = (IF variant = "out" THEN map_column_names(uploaded_file)
             ELSE uploaded_file)
    /\ inp \in {[NoInput EXCEPT !.search = q, !.category = k,
                                !.earlier_start = w[1][1], !.earlier_end = w[1][2],
                                !.later_start = w[2][1], !.later_end = w[2][2]] :
                   q \in SearchTerms, k \in Categories, w \in WindowPairs}
    /\ earlier_filtered = EmptyDataFrame
    /\ later_filtered = EmptyDataFrame
    /\ earlier_selected_df = EmptyDataFrame
    /\ later_selected_df = EmptyDataFrame
    /\ estimation = None
    /\ shown = <<>>

\* earlier_filtered = filter_data(df, ..., earlier_start_date, earlier_end_date, ...)
CallFilterEarlier ==
    /\ \A k \in 1..Len(pc) : pc[k] # "earlier"
    /\ earlier_filtered' = filter_data(variant, df, inp.country, inp.search,
                                       inp.earlier_start, inp.earlier_end,
                                       inp.category)
    /\ df' = filter_data_input(variant, df, inp.country, inp.search, inp.category)
    /\ pc' = Append(pc, "earlier")
    /\ UNCHANGED <<ws, variant, uploaded_file, inp, later_filtered,
                   earlier_selected_df, later_selected_df, estimation, shown>>

\* later_filtered = filter_data(df, ..., later_start_date, later_end_date, ...)
CallFilterLater ==
    /\ \A k \in 1..Len(pc) : pc[k] # "later"
    /\ later_filtered' = filter_data(variant, df, inp.country, inp.search,
                                     inp.later_start, inp.later_end,
                                     inp.category)
    /\ df' = filter_data_input(variant, df, inp.country, inp.search, inp.category)
    /\ pc' = Append(pc, "later")
    /\ UNCHANGED <<ws, variant, uploaded_file, inp, earlier_filtered,
                   earlier_selected_df, later_selected_df, estimation, shown>>

NextFilterCalls == CallFilterEarlier \/ CallFilterLater

SpecFilterCalls == InitFilterCalls /\ [][NextFilterCalls]_vars

\* ------------------------------------------------ normalizer specification
T54332 == Str(<<"5", "4", "3", "3", "2">>)
T61230 == Str(<<"6", "1", "2", "3", "0">>)
T543320000 == Str(<<"5", "4", "3", "3", "2", "0", "0", "0", "0">>)
TEuro == Str(<<"1", " ", "2", "3", "4", ",", "5", "0", NBSP, EURO>>)

\* Demand cells of an uploaded file: missing, 150000000000 and 7 as integers,
\* 1234.5 and 54332.0 as floats, a boolean, and texts
RawDemands ==
    {Null, IntV(15, 10), IntV(7, 0), Float(12345, -1), Float(54332, 0),
     Bool(TRUE), T54332, T61230, T543320000, TEuro}

\* a column pandas.read_csv can produce: int64, float64 (NaN allowed), bool,
\* or object holding text and NaN; an Excel sheet mixes the types freely
CsvColumn(s) ==
    \/ \A i \in 1..Len(s) : s[i].t = "int"
    \/ \A i \in 1..Len(s) : s[i].t \in {"float", "null"}
    \/ \A i \in 1..Len(s) : s[i].t = "bool"
    \/ \A i \in 1..Len(s) : s[i].t \in {"str", "null"}

DemandTables(v) ==
    {MkTable(AppCols, [i \in 1..Len(ds) |-> DemandRow(ds[i])]) :
        ds \in {s \in SeqsUpTo(RawDemands, MaxCol) : v = "app" \/ CsvColumn(s)}}

InitNormalize ==
    /\ ws = NoSheet
    /\ variant \in Variants
    /\ pc = "call"
    /\ uploaded_file \in DemandTables(variant)
    /\ df = uploaded_file
    /\ inp = NoInput
    /\ earlier_filtered = EmptyDataFrame
    /\ later_filtered = EmptyDataFrame
    /\ earlier_selected_df = EmptyDataFrame
    /\ later_selected_df = EmptyDataFrame
    /\ estimation = None
    /\ shown = <<>>

\* df = clean_demand_column(df)
CallCleanDemandColumn ==
    /\ pc = "call"
    /\ df' = clean_demand_column(variant, df)
    /\ pc' = "cleaned"
    /\ UNCHANGED <<ws, variant, uploaded_file, inp, earlier_filtered,
                   later_filtered, earlier_selected_df, later_selected_df,
                   estimation, shown>>

NextNormalize == CallCleanDemandColumn

SpecNormalize == InitNormalize /\ [][NextNormalize]_vars

\* ------------------------------------------------ reconciler specification
\* column names an uploaded CSV may carry besides Country and Demand
CsvNames ==
    {"Start", "End", "Name", "Category", "Description",
     "Date Start", "Date End", "Campaign name", "Category_name", "Other"}

\* a table whose cells name their own column and row: every column differs
NamedTable(cols, n) ==
    MkTable(cols, [i \in 1..n |-> [c \in cols |-> Str(<<c, i>>)]])

InitReconcile ==
    /\ ws = NoSheet
    /\ variant = "out"
    /\ pc = "call"
    /\ uploaded_file \in {NamedTable(cols \cup {"Country", "Demand"}, n) :
                            cols \in SUBSET CsvNames, n \in 0..1}
    /\ df = uploaded_file
    /\ inp = NoInput
    /\ earlier_filtered = EmptyDataFrame
    /\ later_filtered = EmptyDataFrame
    /\ earlier_selected_df = EmptyDataFrame
    /\ later_selected_df = EmptyDataFrame
    /\ estimation = None
    /\ shown = <<>>

\* df = map_column_names(df)
CallMapColumnNames ==
    /\ pc = "call"
    /\ df' = map_column_names(df)
    /\ pc' = "mapped"
    /\ UNCHANGED <<ws, variant, uploaded_file, inp, earlier_filtered,
                   later_filtered, earlier_selected_df, later_selected_df,
                   estimation, shown>>

NextReconcile == CallMapColumnNames

SpecReconcile == InitReconcile /\ [][NextReconcile]_vars

\* ------------------------------------------------------------- sheet loader
\* the columns of the drawn worksheets
SheetCols == 1..2

\* a merged range of a worksheet
CellRange(min_row, max_row, min_col, max_col) ==
    [min_row |-> min_row, max_row |-> max_row, min_col |-> min_col, max_col |-> max_col]

\* the cells of a range, as <<row, column>>
RangeCells(rg) ==
    {<<r, c>> : r \in rg.min_row..rg.max_row, c \in rg.min_col..rg.max_col}

\* wb.active of load_workbook(...): a cell of a merged range other than its
\* top-left one is a MergedCell, whose value is None
load_workbook(file) ==
    [file EXCEPT !.cells =
        [r \in 1..Len(file.cells) |->
            [c \in SheetCols |->
                IF \E rg \in file.merged_cells :
                      /\ <<r, c>> \in RangeCells(rg)
                      /\ <<r, c>> # <<rg.min_row, rg.min_col>>
                THEN Null
                ELSE file.cells[r][c]]]]

\* mutant: the value of the bottom-right cell of the range
bottom_right_value(sheet, merged_range) ==
    sheet.cells[merged_range.max_row][merged_range.max_col]

\* top_left_value = ws.cell(row=tl_row, column=tl_col).value
top_left_value(sheet, merged_range) ==
    sheet.cells[merged_range.min_row][merged_range.min_col]

\* one pass of the loop over the merged ranges: unmerge the range and set
\* every cell of it to the value of its top-left cell
unmerge_cells(sheet, merged_range) ==
    [cells |-> [r \in 1..Len(sheet.cells) |->
                  [c \in SheetCols |->
                      IF <<r, c>> \in RangeCells(merged_range)
                      THEN top_left_value(sheet, merged_range)
                      ELSE sheet.cells[r][c]]],
     merged_cells |-> sheet.merged_cells \ {merged_range}]

\* mutant: a None cell takes the cell right above it as it was, not prev_value
RECURSIVE fill_down_one(_, _)
fill_down_one(col, prev_value) ==
    IF col = <<>> THEN <<>>
    ELSE IF Head(col) # Null
    THEN <<Head(col)>> \o fill_down_one(Tail(col), Head(col))
    ELSE <<prev_value>> \o fill_down_one(Tail(col), Null)

\* for cell in col: a cell that is not None becomes prev_value, a None cell
\* takes prev_value
RECURSIVE fill_down(_, _)
fill_down(col, prev_value) ==
    IF col = <<>> THEN <<>>
    ELSE IF Head(col) # Null
    THEN <<Head(col)>> \o fill_down(Tail(col), Head(col))
    ELSE <<prev_value>> \o fill_down(Tail(col), prev_value)

\* column c of a grid of rows, top to bottom
GridColumn(cells, c) == [r \in 1..Len(cells) |-> cells[r][c]]

\* every column of a grid filled top to bottom
FillColumns(cells) ==
    [r \in 1..Len(cells) |->
        [c \in SheetCols |-> fill_down(GridColumn(cells, c), Null)[r]]]

\* for col in ws.columns: ... (the header row is a row of the column)
forward_fill(sheet) == [sheet EXCEPT !.cells = FillColumns(sheet.cells)]

\* the rest of load_excel_and_unmerge: the first row of ws.values is the
\* headers (a sheet without rows gives pd.DataFrame()), the other rows are the
\* frame, index 0..n-1; df.ffill(axis=0); the headers as text, stripped,
\* without U+00A0 / U+202F.  Columns and cells are kept by position: two
\* headers may be equal.
to_dataframe(sheet) ==
    IF Len(sheet.cells) = 0 THEN EmptyDataFrame
    ELSE LET headers == sheet.cells[1]
             data == FillColumns(Tail(sheet.cells))
         IN  [columns |-> [c \in SheetCols |-> CleanText(headers[c]).s],
              rows |-> [i \in 1..Len(data) |-> [idx |-> i - 1, cells |-> data[i]]]]

\* the text of the cell at row r, column c of a drawn file (the first header
\* is written with a space after it)
CellText(r, c) ==
    LET ch == <<"a", "b", "c", "d", "e">>
    IN  IF r = 1 /\ c = 1 THEN Str(<<ch[r], ch[c], " ">>) ELSE Str(<<ch[r], ch[c]>>)

\* the merged ranges a sheet of n rows can hold: two cells or more
Ranges(n) ==
    {rg \in {CellRange(r1, r2, c1, c2) :
                r1 \in 1..n, r2 \in 1..n, c1 \in SheetCols, c2 \in SheetCols} :
        /\ rg.min_row <= rg.max_row /\ rg.min_col <= rg.max_col
        /\ (rg.min_row < rg.max_row \/ rg.min_col < rg.max_col)}

\* the sets of at most k merged ranges of a sheet of n rows; merged ranges
\* of a sheet do not overlap
RECURSIVE RangeSets(_, _)
RangeSets(n, k) ==
    IF k = 0 THEN {{}}
    ELSE LET less == RangeSets(n, k - 1)
         IN  less \cup
             {S \cup {rg} : <<S, rg>> \in
                 {x \in less \X Ranges(n) :
                     \A a \in x[1] : RangeCells(a) \cap RangeCells(x[2]) = {}}}

\* an uploaded workbook of n rows: the cells of filled hold their own text,
\* the others are empty; S is its merged ranges
Workbook(n, filled, S) ==
    [cells |-> [r \in 1..n |-> [c \in SheetCols |->
                   IF <<r, c>> \in filled THEN CellText(r, c) ELSE Null]],
     merged_cells |-> S]

\* up to MaxSheetRows rows and up to MaxRanges disjoint merged ranges
InitFlatten ==
    /\ ws = NoSheet
    /\ variant = "app"
    /\ pc = "open"
    /\ \E n \in 0..MaxSheetRows :
       \E S \in RangeSets(n, MaxRanges) :
       \E filled \in SUBSET ((1..n) \X SheetCols) :
          uploaded_file = Workbook(n, filled, S)
    /\ df = EmptyDataFrame
    /\ inp = NoInput
    /\ earlier_filtered = EmptyDataFrame
    /\ later_filtered = EmptyDataFrame
    /\ earlier_selected_df = EmptyDataFrame
    /\ later_selected_df = EmptyDataFrame
    /\ estimation = None
    /\ shown = <<>>

\* wb = load_workbook(io.BytesIO(file_bytes), data_only=True); ws = wb.active
LoadWorkbook ==
    /\ pc = "open"
    /\ ws' = load_workbook(uploaded_file)
    /\ pc' = "unmerge"
    /\ UNCHANGED <<variant, uploaded_file, df, inp, earlier_filtered, later_filtered,
                   earlier_selected_df, later_selected_df, estimation, shown>>

\* one pass of "for merged_range in list(ws.merged_cells.ranges)", the
\* ranges taken in any order
Unmerge ==
    /\ pc = "unmerge"
    /\ \E merged_range \in ws.merged_cells : ws' = unmerge_cells(ws, merged_range)
    /\ UNCHANGED <<variant, pc, uploaded_file, df, inp, earlier_filtered,
                   later_filtered, earlier_selected_df, later_selected_df,
                   estimation, shown>>

\* "for col in ws.columns", after the loop over the merged ranges has ended
ForwardFill ==
    /\ pc = "unmerge"
    /\ ws.merged_cells = {}
    /\ ws' = forward_fill(ws)
    /\ pc' = "frame"
    /\ UNCHANGED <<variant, uploaded_file, df, inp, earlier_filtered, later_filtered,
                   earlier_selected_df, later_selected_df, estimation, shown>>

\* the DataFrame of the sheet, filled and with clean headers, returned
ToDataFrame ==
    /\ pc = "frame"
    /\ df' = to_dataframe(ws)
    /\ pc' = "returned"
    /\ UNCHANGED <<ws, variant, uploaded_file, inp, earlier_filtered, later_filtered,
                   earlier_selected_df, later_selected_df, estimation, shown>>

NextFlatten == LoadWorkbook \/ Unmerge \/ ForwardFill \/ ToDataFrame

SpecFlatten == InitFlatten /\ [][NextFlatten]_vars

\* ------------------------------------------------------------ the script run
\* the rows of the uploaded sheet of a run, cut down to its columns
SheetRows(cols) ==
    LET full == << FilterRow(PL, <<"a", "b", "c">>, <<"x">>, <<"T", " ">>, Jan5, Feb3),
                   FilterRow(PL, <<"x", "y", "z">>, <<"x">>, <<"S">>, Feb3, Feb3) >>
    IN  [i \in 1..Len(full) |->
            [c \in cols |-> IF c = "Demand"
                            THEN (IF i = 1 THEN T54332 ELSE TEuro)
                            ELSE full[i][c]]]

\* the uploaded files: every choice of columns, with two rows or none
Uploads ==
    {MkTable(cols, SheetRows(cols)) : cols \in (SUBSET RawCols) \ {{}}}
    \cup {MkTable(RawCols, <<>>)}

\* what the script displays
Message(kind, text, names) == [kind |-> kind, text |-> text, names |-> names]

\* except Exception as e: st.error(f"Error processing file: {e}")
Failure(key) == Message("error", "Error processing file", {key})

\* required_cols of each variant (date_cols and name_cols of the variant
\* "out" are assigned and never read)
required_cols(v) ==
    IF v = "app" THEN {"Country", "Name", "Description", "Start", "End", "Demand"}
    ELSE {"Country", "Description", "Demand"}

\* Series.dropna().unique() of a text column, as a set
Unique(t, c) == {v.s : v \in {t.rows[i].cells[c] : i \in 1..Len(t.rows)} \ {Null}}

\* reorder_columns: the same rows and cells (a table of the model holds its
\* columns as a set, so their order is not part of it)
reorder_columns(t) == t

\* the rows whose checkbox is ticked; pd.DataFrame() when there is no
\* checkbox (variant "app") or the filtered table is empty (variant "out")
Selected(t, ticked) ==
    IF Len(t.rows) = 0 THEN EmptyDataFrame
    ELSE Where(t, SelectSeq(t.rows, LAMBDA r : r.idx \in ticked))

Init ==
    /\ ws = NoSheet
    /\ variant \in Variants
    /\ pc = "load"
    /\ uploaded_file \in Uploads
    /\ df = EmptyDataFrame
    /\ inp = NoInput
    /\ earlier_filtered = EmptyDataFrame
    /\ later_filtered = EmptyDataFrame
    /\ earlier_selected_df = EmptyDataFrame
    /\ later_selected_df = EmptyDataFrame
    /\ estimation = None
    /\ shown = <<>>

\* df = load_excel_and_unmerge(raw_bytes) / load_data(uploaded_file); the
\* variant "app" stops on an empty table
Load ==
    /\ pc = "load"
    /\ df' = uploaded_file
    /\ IF variant = "app" /\ empty(uploaded_file)
       THEN /\ shown' = Append(shown, Message("error", "No data read from Excel.", {}))
            /\ pc' = "done"
       ELSE /\ shown' = shown
            /\ pc' = IF variant = "out" THEN "map" ELSE "check"
    /\ UNCHANGED <<ws, variant, uploaded_file, inp, earlier_filtered,
                   later_filtered, earlier_selected_df, later_selected_df,
                   estimation>>

\* df = map_column_names(df)   (variant "out" only)
MapColumns ==
    /\ pc = "map"
    /\ df' = map_column_names(df)
    /\ pc' = "check"
    /\ UNCHANGED <<ws, variant, uploaded_file, inp, earlier_filtered,
                   later_filtered, earlier_selected_df, later_selected_df,
                   estimation, shown>>

\* the required-columns test: "app" shows the missing columns, "out" shows
\* the columns found
CheckRequired ==
    /\ pc = "check"
    /\ IF required_cols(variant) \subseteq df.columns
       THEN /\ pc' = "clean"
            /\ shown' = shown
       ELSE /\ pc' = "done"
            /\ shown' = Append(shown,
                  IF variant = "app"
                  THEN Message("error", "Missing required columns",
                               required_cols(variant) \ df.columns)
                  ELSE Message("error", "Missing required columns. Found",
                               df.columns))
    /\ UNCHANGED <<ws, variant, uploaded_file, df, inp, earlier_filtered,
                   later_filtered, earlier_selected_df, later_selected_df,
                   estimation>>

\* df = clean_demand_column(df); "out" then reads the date columns for the
\* sidebar and the category column for the selectbox, "app" reports the counts
CleanDemand ==
    /\ pc = "clean"
    /\ df' = clean_demand_column(variant, df)
    /\ IF variant = "app"
       THEN /\ shown' = Append(shown, Message("info", "Demand cleaned",
                                              {DemandDiagnostics(df')}))
            /\ pc' = "inputs"
       ELSE IF "Date Start" \notin df.columns /\ "Start" \notin df.columns
       THEN shown' = Append(shown, Failure("Start")) /\ pc' = "done"
       ELSE IF "Date End" \notin df.columns /\ "End" \notin df.columns
       THEN shown' = Append(shown, Failure("End")) /\ pc' = "done"
       ELSE IF "Category_name" \notin df.columns /\ "Category" \notin df.columns
       THEN shown' = Append(shown, Failure("Category")) /\ pc' = "done"
       ELSE shown' = shown /\ pc' = "inputs"
    /\ UNCHANGED <<ws, variant, uploaded_file, inp, earlier_filtered,
                   later_filtered, earlier_selected_df, later_selected_df,
                   estimation>>

\* the category column the selectbox lists
category_col(v, t) ==
    IF v = "app" THEN "Category"
    ELSE IF "Category_name" \in t.columns THEN "Category_name" ELSE "Category"

\* the widgets: country, category, search term, the two windows, the growth
ReadInputs ==
    /\ pc = "inputs"
    /\ \E country \in Unique(df, "Country"),
          category \in {All} \cup (IF category_col(variant, df) \in df.columns
                                   THEN Unique(df, category_col(variant, df))
                                   ELSE {}),
          search \in {<<>>, <<"a", "b", "c">>},
          w \in {<<Ts(DateOrd(2024, 1, 1)), Ts(DateOrd(2024, 1, 10))>>,
                 <<Ts(DateOrd(2024, 1, 1)), Ts(DateOrd(2024, 2, 10))>>} :
          inp' = [country |-> country, category |-> category, search |-> search,
                  earlier_start |-> w[1], earlier_end |-> w[2],
                  later_start |-> Ts(DateOrd(2024, 2, 1)),
                  later_end |-> Ts(DateOrd(2024, 2, 10)),
                  growth |-> 10]
    /\ pc' = "filter_earlier"
    /\ UNCHANGED <<ws, variant, uploaded_file, df, earlier_filtered,
                   later_filtered, earlier_selected_df, later_selected_df,
                   estimation, shown>>

\* earlier_filtered = filter_data(df, ..., earlier_start_date, earlier_end_date, ...)
FilterEarlier ==
    /\ pc = "filter_earlier"
    /\ LET r == filter_data(variant, df, inp.country, inp.search,
                            inp.earlier_start, inp.earlier_end, inp.category)
       IN  IF IsErr(r)
           THEN /\ shown' = Append(shown, Failure(r.key))
                /\ pc' = "done"
                /\ earlier_filtered' = earlier_filtered
           ELSE /\ shown' = shown
                /\ pc' = "filter_later"
                /\ earlier_filtered' = r
    /\ df' = filter_data_input(variant, df, inp.country, inp.search, inp.category)
    /\ UNCHANGED <<ws, variant, uploaded_file, inp, later_filtered,
                   earlier_selected_df, later_selected_df, estimation>>

\* later_filtered = filter_data(df, ..., later_start_date, later_end_date, ...)
FilterLater ==
    /\ pc = "filter_later"
    /\ LET r == filter_data(variant, df, inp.country, inp.search,
                            inp.later_start, inp.later_end, inp.category)
       IN  IF IsErr(r)
           THEN /\ shown' = Append(shown, Failure(r.key))
                /\ pc' = "done"
                /\ later_filtered' = later_filtered
           ELSE /\ shown' = shown
                /\ pc' = "select"
                /\ later_filtered' = r
    /\ df' = filter_data_input(variant, df, inp.country, inp.search, inp.category)
    /\ UNCHANGED <<ws, variant, uploaded_file, inp, earlier_filtered,
                   earlier_selected_df, later_selected_df, estimation>>

\* reorder_columns and the checkboxes: each period is kept whole or unticked;
\* "out" reads the name column of every row for its label
Select ==
    /\ pc = "select"
    /\ earlier_filtered' = reorder_columns(earlier_filtered)
    /\ later_filtered' = reorder_columns(later_filtered)
    /\ IF /\ variant = "out"
          /\ Len(earlier_filtered.rows) + Len(later_filtered.rows) > 0
          /\ "Campaign name" \notin df.columns /\ "Name" \notin df.columns
       THEN /\ shown' = Append(shown, Failure("Name"))
            /\ pc' = "done"
            /\ UNCHANGED <<earlier_selected_df, later_selected_df>>
       ELSE /\ shown' = shown
            /\ pc' = "calculate"
            /\ \E keep_earlier, keep_later \in BOOLEAN :
                  /\ earlier_selected_df' =
                        Selected(earlier_filtered',
                                 IF keep_earlier THEN IndexSet(earlier_filtered) ELSE {})
                  /\ later_selected_df' =
                        Selected(later_filtered',
                                 IF keep_later THEN IndexSet(later_filtered) ELSE {})
    /\ UNCHANGED <<ws, variant, uploaded_file, df, inp, estimation>>

\* the button "Calculate Estimation"
Calculate ==
    /\ pc = "calculate"
    /\ IF empty(earlier_selected_df) /\ empty(later_selected_df)
       THEN /\ estimation' = estimation
            /\ shown' = Append(shown, Message("warning", "No campaigns selected", {}))
       ELSE /\ estimation' = estimate_demand(variant, earlier_selected_df,
                                             later_selected_df, inp.growth)
            /\ shown' = Append(shown,
                  IF estimation' = None
                  THEN Message("warning", "Unable to calculate estimation", {})
                  ELSE Message("success", "Estimated Demand", {estimation'}))
    /\ pc' = "done"
    /\ UNCHANGED <<ws, variant, uploaded_file, df, inp, earlier_filtered,
                   later_filtered, earlier_selected_df, later_selected_df>>

Next ==
    \/ Load
    \/ MapColumns
    \/ CheckRequired
    \/ CleanDemand
    \/ ReadInputs
    \/ FilterEarlier
    \/ FilterLater
    \/ Select
    \/ Calculate

Spec == Init /\ [][Next]_vars

\* ------------------------------------------------------------------ claims
\* the integer a whole-valued Demand cell holds
WholeOf(v) == v.m * Pow10(v.x)

\* total and number of the non-null Demand cells of a table
RECURSIVE DemandTotalFrom(_, _)
DemandTotalFrom(t, i) ==
    IF i > Len(t.rows) THEN 0
    ELSE (IF t.rows[i].cells["Demand"].t = "null" THEN 0
          ELSE WholeOf(t.rows[i].cells["Demand"])) + DemandTotalFrom(t, i + 1)

DemandTotal(t) == DemandTotalFrom(t, 1)

DemandCount(t) ==
    Cardinality({i \in 1..Len(t.rows) : t.rows[i].cells["Demand"].t # "null"})

\* est is the number p/q
IsNumber(est, p, q) == est.t = "rat" /\ est.n * q = p * est.d

\* C1: estimate_demand returns None when both sets have zero rows, laterMean
\* when only the earlier set has zero rows, earlierMean * (1 + g/100) when
\* only the later set has zero rows, and the half sum of the two otherwise;
\* emptiness is zero rows, and a set of Demand 0 rows contributes a mean of 0.
\* (Means are over the non-null Demand values; a set with rows and no such
\* value has no mean here and is the subject of C2.)
C1_EstimateCases ==
    pc = "estimated" =>
        LET E == earlier_selected_df
            L == later_selected_df
            g == inp.growth
            nE == Len(E.rows)
            nL == Len(L.rows)
            sE == DemandTotal(E)
            cE == DemandCount(E)
            sL == DemandTotal(L)
            cL == DemandCount(L)
        IN  /\ (nE = 0 /\ nL = 0) => estimation = None
            /\ (nE = 0 /\ nL > 0) =>
                  /\ estimation # None
                  /\ cL > 0 => IsNumber(estimation, sL, cL)
            /\ (nE > 0 /\ nL = 0) =>
                  /\ estimation # None
                  /\ cE > 0 => IsNumber(estimation, sE * (100 + g), cE * 100)
            /\ (nE > 0 /\ nL > 0) =>
                  /\ estimation # None
                  /\ (cE > 0 /\ cL > 0) =>
                        IsNumber(estimation,
                                 sE * (100 + g) * cL + sL * 100 * cE,
                                 200 * cE * cL)

\* C1 witness: earlier = {100}, later = {200}, growth 10 gives 155
C1_Witness ==
    /\ pc = "estimated"
    /\ Column(earlier_selected_df, "Demand") = <<Float(1, 2)>>
    /\ Column(later_selected_df, "Demand") = <<Float(2, 2)>>
    /\ inp.growth = 10
    /\ estimation = Rat(155, 1)

\* C2: for an earlier set with rows whose Demand values are all null and a
\* later set with zero rows, the result is the number 0, never NaN.
C2_AllNullMeanIsZero ==
    (/\ pc = "estimated"
     /\ Len(earlier_selected_df.rows) > 0
     /\ DemandCount(earlier_selected_df) = 0
     /\ Len(later_selected_df.rows) = 0)
        => estimation = Rat(0, 1)

\* the day a drawn date cell denotes, read day first; -1 when it is no date
DayOf(cell) ==
    CASE cell = Jan5 -> DateOrd(2024, 1, 5)
      [] cell = Feb3 -> DateOrd(2024, 2, 3)
      [] OTHER -> -1

\* the row of df with index label i
RowOf(i) == df.rows[CHOOSE k \in 1..Len(df.rows) : df.rows[k].idx = i]

\* the index labels filter_data keeps under the widest window: the rows that
\* passed the country, category and search steps and have two parsed dates
PassedOtherSteps ==
    IndexSet(filter_data(variant, df, inp.country, inp.search,
                         Ts(DateOrd(2000, 1, 1)), Ts(DateOrd(2100, 1, 1)),
                         inp.category))

\* the row's dates overlap the window of the criteria
Overlaps(i) ==
    /\ DayOf(RowOf(i).cells["Start"]) >= 0
    /\ DayOf(RowOf(i).cells["End"]) >= inp.earlier_start.ord
    /\ DayOf(RowOf(i).cells["Start"]) <= inp.earlier_end.ord

\* C3: filter_data keeps a row that passed the country, category and search
\* steps exactly when its end date is >= the window's start and its start
\* date is <= the window's end (overlap, not containment).
C3_KeepsOverlappingRows ==
    pc = "filtered" =>
        /\ ~IsErr(earlier_filtered)
        /\ IndexSet(earlier_filtered) = {i \in PassedOtherSteps : Overlaps(i)}

\* C8: a search term shorter than 3 characters after trimming does not
\* restrict the rows: the result is that of an empty search term.
C8_ShortSearchIsNoOp ==
    (pc = "filtered" /\ Len(strip(inp.search)) < 3) =>
        earlier_filtered = filter_data(variant, df, inp.country, <<>>,
                                       inp.earlier_start, inp.earlier_end,
                                       inp.category)

\* the row has a start or end date that is no date
Unparseable(r) == DayOf(r.cells["Start"]) < 0 \/ DayOf(r.cells["End"]) < 0

\* C9: a row whose start or end date cannot be parsed is never in the result
\* of filter_data, filter_data raises no error, and the other rows are
\* filtered as if that row were absent.
C9_UnparseableRowsExcluded ==
    pc = "filtered" =>
        /\ ~IsErr(earlier_filtered)
        /\ \A k \in 1..Len(earlier_filtered.rows) :
              ~Unparseable(RowOf(earlier_filtered.rows[k].idx))
        /\ earlier_filtered =
              filter_data(variant, Where(df, SelectSeq(df.rows, LAMBDA r : ~Unparseable(r))),
                          inp.country, inp.search, inp.earlier_start,
                          inp.earlier_end, inp.category)

\* C9 witness: a table with an unparseable row and a row that is kept
C9_Witness ==
    /\ pc = "filtered"
    /\ \E k \in 1..Len(df.rows) : Unparseable(df.rows[k])
    /\ ~IsErr(earlier_filtered)
    /\ Len(earlier_filtered.rows) > 0

\* a and b (each m * 10^x) are the same number
SameValue(a, b) ==
    LET lo == IF a.x < b.x THEN a.x ELSE b.x
    IN  a.m * Pow10(a.x - lo) = b.m * Pow10(b.x - lo)

\* C5: a Demand value that is already a number (integer or float, not a
\* boolean) is returned as the float of exactly the same value.
C5_NumbersPassThrough ==
    pc = "cleaned" =>
        \A k \in 1..Len(df.rows) :
            LET before == uploaded_file.rows[k].cells["Demand"]
                after == df.rows[k].cells["Demand"]
            IN  before.t \in {"int", "float"} =>
                    after.t = "float" /\ SameValue(after, before)

\* the lower and the upper median of a non-empty sequence of numbers
LowerMedian(s) ==
    CHOOSE e \in {s[i] : i \in 1..Len(s)} :
        /\ Cardinality({i \in 1..Len(s) : s[i] < e}) <= (Len(s) - 1) \div 2
        /\ Cardinality({i \in 1..Len(s) : s[i] <= e}) > (Len(s) - 1) \div 2

UpperMedian(s) ==
    CHOOSE e \in {s[i] : i \in 1..Len(s)} :
        /\ Cardinality({i \in 1..Len(s) : s[i] < e}) <= Len(s) \div 2
        /\ Cardinality({i \in 1..Len(s) : s[i] <= e}) > Len(s) \div 2

\* the typical digit count of a column of parsed values: the median digit
\* count of the values below 1e8, 5 when there is none
TypicalDigits(parsed) ==
    LET normal == SelectSeq(parsed, LAMBDA p :
                      p.t = "float" /\ ~AbsAbove(p, 8))
        counts == [i \in 1..Len(normal) |-> IntDigits(normal[i])]
    IN  IF Len(normal) = 0 THEN 5
        ELSE (LowerMedian(counts) + UpperMedian(counts)) \div 2

\* the first k digits of the integer part of p, with p's sign
Truncated(p, k) ==
    LET ds == Digits(Abs(p.m)) \o Zeros(p.x)
    IN  MkFloat(p.m < 0, SubSeq(ds, 1, IF k < Len(ds) THEN k ELSE Len(ds)), 0)

\* C6: in a column of textual Demand values, each parsed value above 1e8 is
\* replaced by the number formed from the first k digits of its integer part
\* with its sign, k the median digit count of the values below 1e8 (5 if
\* none): ["54332", "61230", "543320000"] becomes [54332.0, 61230.0, 54332.0].
C6_OutliersTruncated ==
    (/\ pc = "cleaned"
     /\ \A k \in 1..Len(df.rows) : uploaded_file.rows[k].cells["Demand"].t = "str")
        => LET parsed == [k \in 1..Len(df.rows) |->
                             parse_demand(variant, uploaded_file.rows[k].cells["Demand"])]
               typical == TypicalDigits(parsed)
           IN  \A k \in 1..Len(df.rows) :
                   (parsed[k].t = "float" /\ AbsAbove(parsed[k], 8))
                       => df.rows[k].cells["Demand"] = Truncated(parsed[k], typical)

\* C7: clean_demand_column is idempotent: applied to its own output (a
\* column of floats and nulls) it yields the same values.
C7_Idempotent ==
    pc = "cleaned" => clean_demand_column(variant, df) = df

\* the aliases of the reconciliation: source column, canonical column
Aliases ==
    {<<"Start", "Date Start">>, <<"End", "Date End">>,
     <<"Name", "Campaign name">>, <<"Category", "Category_name">>}

\* C10: map_column_names creates a canonical column only when it is absent
\* and its alias source column is present (as a copy of the source); an
\* existing canonical column keeps its values, and every alias source column
\* and every other column is left unchanged.
C10_ReconcileFrame ==
    pc = "mapped" =>
        /\ df.columns =
              uploaded_file.columns \cup
              {a[2] : a \in {b \in Aliases : b[1] \in uploaded_file.columns}}
        /\ Index(df) = Index(uploaded_file)
        /\ \A c \in uploaded_file.columns :
              Column(df, c) = Column(uploaded_file, c)
        /\ \A a \in Aliases :
              (a[1] \in uploaded_file.columns /\ a[2] \notin uploaded_file.columns)
                  => Column(df, a[2]) = Column(uploaded_file, a[1])

\* C10 witness: one canonical column is created (Date Start from Start) and
\* one that exists (Date End, beside End) is kept, in a table with a row
C10_Witness ==
    /\ pc = "mapped"
    /\ Len(uploaded_file.rows) = 1
    /\ {"Start", "End", "Date End"} \subseteq uploaded_file.columns
    /\ "Date Start" \notin uploaded_file.columns
    /\ df.rows[1].cells["Date Start"] = uploaded_file.rows[1].cells["Start"]
    /\ df.rows[1].cells["Date End"] # uploaded_file.rows[1].cells["End"]

\* the table has every required field: country, description, demand, a
\* start/end date pair and a name field
HasRequiredFields(cols) ==
    /\ {"Country", "Description", "Demand"} \subseteq cols
    /\ {"Start", "End"} \subseteq cols \/ {"Date Start", "Date End"} \subseteq cols
    /\ "Name" \in cols \/ "Campaign name" \in cols

\* C4: Demand normalization, filtering and estimation are never reached for
\* a table that lacks a required field: the missing-fields check comes first
\* and, when a required field is absent, the run stops there with a failure
\* that names the missing fields.  (An upload without rows is "no data", not
\* a table that lacks fields, and is left out.)
C4_MissingFieldsStopFirst ==
    /\ pc \in {"inputs", "filter_earlier", "filter_later", "select", "calculate"}
          => HasRequiredFields(df.columns)
    /\ (pc = "done" /\ ~empty(uploaded_file) /\ ~HasRequiredFields(df.columns)) =>
          /\ Len(shown) = 1
          /\ shown[1].kind = "error"
          /\ shown[1].text \in {"Missing required columns",
                                "Missing required columns. Found"}
          /\ "Demand" \in df.columns =>
                Column(df, "Demand") = Column(uploaded_file, "Demand")

\* the table the script handed to the first filter call
FilterInput ==
    IF variant = "out" THEN map_column_names(uploaded_file) ELSE uploaded_file

\* the frame the filter assigned its cleaned texts and parsed dates to
FilterAssigned ==
    IF variant = "out"
    THEN assigned_out(FilterInput, inp.country, inp.search, inp.category)
    ELSE assigned_app(FilterInput, inp.country, inp.search, inp.category)

\* C11: filter_data does not modify its input table: after any call every
\* cell of the input has the value it had before, so each of the two calls
\* returns what it returns on the table as uploaded, in either order of the
\* calls.
C11_FilterLeavesInput ==
    /\ df = FilterInput
    /\ (\E k \in 1..Len(pc) : pc[k] = "earlier") =>
           earlier_filtered = filter_data(variant, FilterInput, inp.country,
                                          inp.search, inp.earlier_start,
                                          inp.earlier_end, inp.category)
    /\ (\E k \in 1..Len(pc) : pc[k] = "later") =>
           later_filtered = filter_data(variant, FilterInput, inp.country,
                                        inp.search, inp.later_start,
                                        inp.later_end, inp.category)

\* both calls made, the later one first, on a table whose cells the filter
\* cleaned and parsed internally, with rows returned for both periods
C11_Witness ==
    /\ pc = <<"later", "earlier">>
    /\ WriteThrough(FilterInput, FilterAssigned) # FilterInput
    /\ Len(earlier_filtered.rows) > 0
    /\ Len(later_filtered.rows) > 0
    /\ earlier_filtered # later_filtered


\* the merged ranges of the uploaded workbook that hold the cell
RangesOf(r, c) == {rg \in uploaded_file.merged_cells : <<r, c>> \in RangeCells(rg)}

\* C13: after merge resolution (before forward-fill) every cell of every
\* merged range holds the value the top-left cell of the range had, for any
\* number of disjoint ranges taken in any order (during the loop: every cell
\* of every range already taken); a cell outside all merged ranges is
\* unchanged.
C13_MergeResolution ==
    pc = "unmerge" =>
        /\ Len(ws.cells) = Len(uploaded_file.cells)
        /\ \A r \in 1..Len(ws.cells) : \A c \in SheetCols :
              /\ \A rg \in RangesOf(r, c) \ ws.merged_cells :
                    ws.cells[r][c] = uploaded_file.cells[rg.min_row][rg.min_col]
              /\ RangesOf(r, c) = {} => ws.cells[r][c] = uploaded_file.cells[r][c]

\* the loop has ended on a sheet of two merged ranges with a value in the
\* top-left cell of each, where a cell of a range held another value or none
\* in the file and a cell outside the ranges holds a value
C13_Witness ==
    /\ pc = "unmerge"
    /\ ws.merged_cells = {}
    /\ Cardinality(uploaded_file.merged_cells) = 2
    /\ \A rg \in uploaded_file.merged_cells :
          /\ uploaded_file.cells[rg.min_row][rg.min_col] # Null
          /\ ws.cells[rg.max_row][rg.max_col] # uploaded_file.cells[rg.max_row][rg.max_col]
    /\ \E r \in 1..Len(ws.cells) : \E c \in SheetCols :
          RangesOf(r, c) = {} /\ ws.cells[r][c] # Null

\* the value of a cell after merge resolution, from the uploaded workbook
Resolved(r, c) ==
    IF RangesOf(r, c) = {} THEN uploaded_file.cells[r][c]
    ELSE LET rg == CHOOSE x \in RangesOf(r, c) : TRUE
         IN  uploaded_file.cells[rg.min_row][rg.min_col]

\* the rows at or above r whose cell in column c is non-null after merge
\* resolution
NonNullAbove(r, c) == {k \in 1..r : Resolved(k, c) # Null}

\* the value of the nearest such cell, null when there is none
NearestAbove(r, c) ==
    IF NonNullAbove(r, c) = {} THEN Null
    ELSE Resolved(CHOOSE m \in NonNullAbove(r, c) :
                     \A k \in NonNullAbove(r, c) : k <= m, c)

\* C12: forward-fill runs only after all merged ranges are resolved, and in
\* the filled sheet and the returned frame a cell that was null after merge
\* resolution holds the value of the nearest non-null cell above it in its
\* column (null when there is none) and a non-null cell keeps its value; the
\* first row is returned as the headers, as cleaned text.
C12_ForwardFill ==
    /\ pc \in {"frame", "returned"} =>
          /\ ws.merged_cells = {}
          /\ Len(ws.cells) = Len(uploaded_file.cells)
          /\ \A r \in 1..Len(ws.cells) : \A c \in SheetCols :
                ws.cells[r][c] = NearestAbove(r, c)
    /\ (pc = "returned" /\ Len(uploaded_file.cells) > 0) =>
          /\ Len(df.rows) = Len(uploaded_file.cells) - 1
          /\ \A c \in SheetCols :
                df.columns[c] = RemoveNbsp(strip(astype_str(NearestAbove(1, c))))
          /\ \A i \in 1..Len(df.rows) : \A c \in SheetCols :
                df.rows[i].cells[c] = NearestAbove(i + 1, c)

\* the frame is returned for a sheet with a merged range whose top-left cell
\* is empty, a null cell filled from two rows above, a cell that stays null
\* and a non-null cell under a null one
C12_Witness ==
    /\ pc = "returned"
    /\ Len(uploaded_file.cells) >= 3
    /\ \E rg \in uploaded_file.merged_cells :
          uploaded_file.cells[rg.min_row][rg.min_col] = Null
    /\ \E c \in SheetCols :
          /\ Resolved(3, c) = Null /\ Resolved(2, c) = Null
          /\ df.rows[2].cells[c] = Resolved(1, c) /\ Resolved(1, c) # Null
    /\ \E i \in 1..2 : \E c \in SheetCols : df.rows[i].cells[c] = Null
    /\ \E r \in 2..3 : \E c \in SheetCols :
          /\ Resolved(r, c) # Null /\ Resolved(r - 1, c) = Null
          /\ df.rows[r - 1].cells[c] = Resolved(r, c)

====
